---- MODULE Spec2Model ----
(***************************************************************************)
(* The GET /search handler of src/server.js: validation of `q`, limit      *)
(* normalisation, the call to client.search, the fan-out of                *)
(* client.getSongInfo over the candidates, the Promise.all join and the    *)
(* three responses (400, 200, 500).                                        *)
(*                                                                         *)
(* Encoding of JavaScript values:                                          *)
(*   - a string is a tuple of one-character strings (so that trim() and    *)
(*     parseInt() are computed character by character);                    *)
(*   - a query-string parameter is a record [kind, chars, items]: kind is  *)
(*     "absent" (undefined), "string" or "array" (a repeated parameter);   *)
(*   - an optional text field (title, url, message ...) is a TLA+ string,  *)
(*     with Undefined and Null standing for undefined and null;            *)
(*   - an optional number (duration) is <<>> (undefined) or <<n>>.         *)
(***************************************************************************)
EXTENDS Integers, Sequences, FiniteSets

VARIABLES
    pc,                       \* position of the handler: idle, searching, joining, done
    query,                    \* req.query.q
    rawLimit,                 \* req.query.limit
    limit,                    \* the normalised limit (0 while not computed)
    searchCalls,              \* the calls made to client.search, in order
    searchResults,            \* what client.search produced
    lookupCalls,              \* the urls client.getSongInfo was called with, in order
    lookups,                  \* per candidate: the state of its detail lookup
    detailedResultsPromises,  \* per candidate: the promise of its record
    join,                     \* the promise returned by Promise.all
    response                  \* what res.status().json() sent

vars == <<pc, query, rawLimit, limit, searchCalls, searchResults, lookupCalls,
          lookups, detailedResultsPromises, join, response>>

(***************************************************************************)
(* Bounds and program constants                                            *)
(***************************************************************************)
MaxCandidates == 3

DEFAULT_SEARCH_LIMIT == 10

MAX_SEARCH_LIMIT == 50

(***************************************************************************)
(* JavaScript values                                                       *)
(***************************************************************************)
Undefined == "<undefined>"

Null == "<null>"

\* ToBoolean of an optional text value
Truthy(x) == x \notin {Undefined, Null, ""}

\* a || b on optional text values
OrElse(a, b) == IF Truthy(a) THEN a ELSE b

WhiteSpace == {" ", "\t"}

Digits == {"0", "1", "2", "3", "4", "5", "6", "7", "8", "9"}

DigitVal(c) ==
    CASE c = "0" -> 0 [] c = "1" -> 1 [] c = "2" -> 2 [] c = "3" -> 3
      [] c = "4" -> 4 [] c = "5" -> 5 [] c = "6" -> 6 [] c = "7" -> 7
      [] c = "8" -> 8 [] c = "9" -> 9

Absent == [kind |-> "absent", chars |-> <<>>, items |-> <<>>]

Str(s) == [kind |-> "string", chars |-> s, items |-> <<>>]

Arr(ss) == [kind |-> "array", chars |-> <<>>, items |-> ss]

RECURSIVE JoinComma(_)
JoinComma(ss) ==
    IF ss = <<>> THEN <<>>
    ELSE IF Len(ss) = 1 THEN ss[1]
    ELSE ss[1] \o <<",">> \o JoinComma(Tail(ss))

\* ToString(v) as parseInt applies it to its first argument
JsToString(p) ==
    CASE p.kind = "absent" -> <<"u", "n", "d", "e", "f", "i", "n", "e", "d">>
      [] p.kind = "string" -> p.chars
      [] p.kind = "array"  -> JoinComma(p.items)

RECURSIVE TrimStart(_)
TrimStart(s) ==
    IF s # <<>> /\ Head(s) \in WhiteSpace THEN TrimStart(Tail(s)) ELSE s

RECURSIVE TrimEnd(_)
TrimEnd(s) ==
    IF s # <<>> /\ s[Len(s)] \in WhiteSpace
    THEN TrimEnd(SubSeq(s, 1, Len(s) - 1)) ELSE s

\* String.prototype.trim
Trim(s) == TrimEnd(TrimStart(s))

RECURSIVE DigitPrefix(_)
DigitPrefix(s) ==
    IF s # <<>> /\ Head(s) \in Digits THEN <<Head(s)>> \o DigitPrefix(Tail(s))
    ELSE <<>>

RECURSIVE DecimalValue(_)
DecimalValue(ds) ==
    IF ds = <<>> THEN 0
    ELSE 10 * DecimalValue(SubSeq(ds, 1, Len(ds) - 1)) + DigitVal(ds[Len(ds)])

\* parseInt(v, 10): leading white space is skipped, one sign is accepted, the
\* longest prefix of decimal digits is the value, whatever follows is ignored;
\* NaN when there is no digit there.
ParseInt(p) ==
    LET s      == TrimStart(JsToString(p))
        neg    == s # <<>> /\ Head(s) = "-"
        signed == s # <<>> /\ Head(s) \in {"+", "-"}
        body   == IF signed THEN Tail(s) ELSE s
        ds     == DigitPrefix(body)
    IN  IF ds = <<>> THEN [nan |-> TRUE, val |-> 0]
        ELSE [nan |-> FALSE,
              val |-> IF neg THEN 0 - DecimalValue(ds) ELSE DecimalValue(ds)]

(***************************************************************************)
(* Input validation and limit normalisation                                *)
(***************************************************************************)
\* the validation without the trim() test
InvalidQueryNoTrim(q) ==
    \/ q.kind = "absent"
    \/ q.kind = "string" /\ q.chars = <<>>
    \/ q.kind # "string"

\* !query || typeof query !== 'string' || query.trim() === ''
InvalidQuery(q) ==
    \/ q.kind = "absent"
    \/ q.kind = "string" /\ q.chars = <<>>
    \/ q.kind # "string"
    \/ q.kind = "string" /\ Trim(q.chars) = <<>>

\* the normalisation without the upper bound
NormalizeLimitNoClamp(raw) ==
    LET n == ParseInt(raw)
    IN  IF n.nan \/ n.val <= 0 THEN DEFAULT_SEARCH_LIMIT ELSE n.val

NormalizeLimit(raw) ==
    LET n == ParseInt(raw)
    IN  IF n.nan \/ n.val <= 0 THEN DEFAULT_SEARCH_LIMIT
        ELSE IF n.val > MAX_SEARCH_LIMIT THEN MAX_SEARCH_LIMIT
        ELSE n.val

(***************************************************************************)
(* Upstream values: candidates, detail payloads, thrown values             *)
(***************************************************************************)
Track(url, title, authorName, thumbnail, duration) ==
    [nil |-> FALSE, url |-> url, title |-> title, authorName |-> authorName,
     thumbnail |-> thumbnail, duration |-> duration]

\* a null entry of the search result; optional chaining reads undefined from it
NullTrack ==
    [nil |-> TRUE, url |-> Undefined, title |-> Undefined,
     authorName |-> Undefined, thumbnail |-> Undefined, duration |-> <<>>]

TrackA == Track("https://sc/a", "Alpha", "Ann", "a.jpg", <<3500>>)

TrackB == Track("https://sc/b", Undefined, Undefined, Undefined, <<>>)

TrackNoUrl == Track(Undefined, "Gamma", "Gus", Undefined, <<-1500>>)

TrackEmptyUrl == Track("", Undefined, Undefined, "e.jpg", <<0>>)

CandidatePool == {TrackA, TrackB, TrackNoUrl, TrackEmptyUrl, NullTrack}

RECURSIVE SeqsUpTo(_, _)
SeqsUpTo(S, n) ==
    IF n = 0 THEN {<<>>}
    ELSE LET shorter == SeqsUpTo(S, n - 1)
         IN  shorter \cup {Append(s, x) : s \in {t \in shorter : Len(t) = n - 1}, x \in S}

Info(title, url, authorName, thumbnail, duration, genre, publishedAt) ==
    [nil |-> FALSE, title |-> title, url |-> url, authorName |-> authorName,
     thumbnail |-> thumbnail, duration |-> duration, genre |-> genre,
     publishedAt |-> publishedAt]

InfoNull ==
    [nil |-> TRUE, title |-> Undefined, url |-> Undefined, authorName |-> Undefined,
     thumbnail |-> Undefined, duration |-> <<>>, genre |-> Undefined,
     publishedAt |-> Undefined]

InfoFull == Info("Detailed", "https://sc/canonical", "Dee", "d.jpg", <<125999>>, "lofi", "2020-01-01")

InfoEmpty == Info(Undefined, Undefined, Undefined, Undefined, <<>>, Undefined, Undefined)

Infos == {InfoFull, InfoEmpty, InfoNull}

\* a thrown value: nullish (null, undefined), or a value whose .message is read
Thrown(message) == [nullish |-> FALSE, message |-> message]

ThrownNullish == [nullish |-> TRUE, message |-> Undefined]

LookupErrors == {Thrown("boom"), Thrown(Undefined), ThrownNullish}

SearchErrors == {Thrown("ECONNRESET"), Thrown("429 rate limited"), ThrownNullish}

\* the TypeError of reading a property of null or undefined
TypeErrorReading(what) == Thrown(what)

(***************************************************************************)
(* The record of one candidate (the async callback of searchResults.map)   *)
(***************************************************************************)
\* rounding to the nearest second instead of flooring
DurationSecondsRounded(d) == IF d # <<>> /\ d[1] # 0 THEN (d[1] + 500) \div 1000 ELSE 0

\* x ? Math.floor(x / 1000) : 0
DurationSeconds(d) == IF d # <<>> /\ d[1] # 0 THEN d[1] \div 1000 ELSE 0

\* the test without the url part
MissingUrlOnlyNull(track) == track.nil

\* !track || !track.url
MissingUrl(track) == track.nil \/ ~Truthy(track.url)

MissingUrlRecord(track) ==
    [title |-> OrElse(track.title, "Unknown Title (URL missing)"),
     url |-> Null,
     author |-> OrElse(track.authorName, "Unknown Artist"),
     thumbnail |-> OrElse(track.thumbnail, Null),
     duration_seconds |-> DurationSeconds(track.duration),
     genre |-> "Unknown",
     publishedAt |-> "Unknown",
     fetchError |-> TRUE,
     errorMessage |-> "Missing track URL in search result"]

\* errorMessage is Undefined here: the key is not in the object
SuccessRecord(track, songInfo) ==
    [title |-> OrElse(songInfo.title, "Unknown Title"),
     url |-> OrElse(songInfo.url, track.url),
     author |-> OrElse(songInfo.authorName, "Unknown Artist"),
     thumbnail |-> OrElse(songInfo.thumbnail, Null),
     duration_seconds |-> DurationSeconds(songInfo.duration),
     genre |-> OrElse(songInfo.genre, "Unknown"),
     publishedAt |-> OrElse(songInfo.publishedAt, "Unknown"),
     fetchError |-> FALSE,
     errorMessage |-> Undefined]

FailureRecord(track, err) ==
    [title |-> OrElse(track.title, "Unknown Title (fetch failed)"),
     url |-> OrElse(track.url, Null),
     author |-> OrElse(track.authorName, "Unknown Artist"),
     thumbnail |-> OrElse(track.thumbnail, Null),
     duration_seconds |-> DurationSeconds(track.duration),
     genre |-> "Unknown",
     publishedAt |-> "Unknown",
     fetchError |-> TRUE,
     errorMessage |-> err.message]

Pending == [state |-> "pending", value |-> <<>>, reason |-> <<>>]

Fulfilled(v) == [state |-> "fulfilled", value |-> <<v>>, reason |-> <<>>]

Rejected(e) == [state |-> "rejected", value |-> <<>>, reason |-> <<e>>]

\* the catch block of the callback: err.message is read (for the log line and
\* for errorMessage), which throws when err is null or undefined
CatchTrack(track, err) ==
    IF err.nullish THEN Rejected(TypeErrorReading("Cannot read properties of null (reading 'message')"))
    ELSE Fulfilled(FailureRecord(track, err))

\* the callback resumed with the lookup's outcome
TrackSettled(track, lookup) ==
    IF lookup.state = "resolved"
    THEN IF lookup.info[1].nil
         THEN CatchTrack(track, TypeErrorReading("Cannot read properties of null (reading 'title')"))
         ELSE Fulfilled(SuccessRecord(track, lookup.info[1]))
    ELSE CatchTrack(track, lookup.err[1])

\* the callback run up to its first await
TrackStarted(track) ==
    IF MissingUrl(track) THEN Fulfilled(MissingUrlRecord(track)) ELSE Pending

(***************************************************************************)
(* Promise.all and the response bodies                                     *)
(***************************************************************************)
AllFulfilled(ps) == \A i \in 1..Len(ps) : ps[i].state = "fulfilled"

\* a join that keeps only the records whose lookup succeeded
JoinAfterDroppingFailures(j, ps, i) ==
    IF j.state # "pending" THEN j
    ELSE IF ps[i].state = "rejected"
         THEN [state |-> "rejected", values |-> <<>>, reason |-> ps[i].reason]
    ELSE IF AllFulfilled(ps)
         THEN [state |-> "fulfilled",
               values |-> SelectSeq([k \in 1..Len(ps) |-> ps[k].value[1]],
                                    LAMBDA r : ~r.fetchError),
               reason |-> <<>>]
    ELSE j

\* Promise.all after promise i of ps has settled: it rejects with the first
\* rejection it sees, fulfils with the values in index order once every
\* promise is fulfilled, and never changes once settled
JoinAfter(j, ps, i) ==
    IF j.state # "pending" THEN j
    ELSE IF ps[i].state = "rejected"
         THEN [state |-> "rejected", values |-> <<>>, reason |-> ps[i].reason]
    ELSE IF AllFulfilled(ps)
         THEN [state |-> "fulfilled",
               values |-> [k \in 1..Len(ps) |-> ps[k].value[1]],
               reason |-> <<>>]
    ELSE j

JoinPending == [state |-> "pending", values |-> <<>>, reason |-> <<>>]

\* Promise.all over promises some of which may be fulfilled already
JoinStarted(ps) ==
    IF AllFulfilled(ps)
    THEN [state |-> "fulfilled",
          values |-> [k \in 1..Len(ps) |-> ps[k].value[1]],
          reason |-> <<>>]
    ELSE JoinPending

NoResponse == [status |-> 0, body |-> <<>>]

BadRequest ==
    [status |-> 400,
     body |-> <<[error |-> "Bad Request: Missing or invalid search query. Please provide a non-empty \"q\" parameter."]>>]

\* the 500 body with the caught error's message in it
InternalErrorWithDetails(error) ==
    [status |-> 500,
     body |-> <<[error |-> "Internal Server Error",
                 message |-> IF error.nullish THEN "null" ELSE error.message,
                 developer |-> "Ehsan Fazeli"]>>]

\* the body does not depend on the error caught
InternalError(error) ==
    [status |-> 500,
     body |-> <<[error |-> "Internal Server Error",
                 message |-> "An unexpected error occurred while processing the SoundCloud search.",
                 developer |-> "Ehsan Fazeli"]>>]

\* an empty search result answered as an error
NoTracksFoundAsError(q, raw, lim) ==
    [status |-> 404,
     body |-> <<[error |-> "Not Found", message |-> "No tracks found for this query."]>>]

NoTracksFound(q, raw, lim) ==
    [status |-> 200,
     body |-> <<[query |-> q, requested_limit |-> raw, processed_limit |-> lim,
                 actual_result_count |-> 0, developer |-> "Ehsan Fazeli",
                 results |-> <<>>, message |-> "No tracks found for this query."]>>]

\* the final response counting the processed limit instead of the records
FinalResponseCountingLimit(q, raw, lim, detailedResults) ==
    [status |-> 200,
     body |-> <<[query |-> q, requested_limit |-> raw, processed_limit |-> lim,
                 actual_result_count |-> lim,
                 developer |-> "Ehsan Fazeli",
                 results |-> detailedResults]>>]

FinalResponse(q, raw, lim, detailedResults) ==
    [status |-> 200,
     body |-> <<[query |-> q, requested_limit |-> raw, processed_limit |-> lim,
                 actual_result_count |-> Len(detailedResults),
                 developer |-> "Ehsan Fazeli",
                 results |-> detailedResults]>>]

(***************************************************************************)
(* Requests and upstream outcomes                                          *)
(***************************************************************************)
Queries ==
    {Absent, Arr(<<<<"a">>, <<"b">>>>), Str(<<>>), Str(<<" ", " ">>), Str(<<"\t">>),
     Str(<<" ", "l", "o", "f", "i">>)}

RawLimits ==
    {Absent, Str(<<>>), Str(<<"a", "b", "c">>), Str(<<"5", "a">>), Str(<<"0">>),
     Str(<<"-", "3">>), Str(<<"3">>), Str(<<"5", "0">>), Str(<<"5", "1">>),
     Str(<<"9", "9", "9">>), Str(<<" ", "1", "2">>), Arr(<<<<"7">>, <<"9">>>>)}

SearchArrays == SeqsUpTo(CandidatePool, MaxCandidates)

NoSearchResults == [kind |-> "none", items |-> <<>>, err |-> <<>>]

(***************************************************************************)
(* The handler                                                             *)
(***************************************************************************)
Init ==
    /\ pc = "idle"
    /\ query = Absent
    /\ rawLimit = Absent
    /\ limit = 0
    /\ searchCalls = <<>>
    /\ searchResults = NoSearchResults
    /\ lookupCalls = <<>>
    /\ lookups = <<>>
    /\ detailedResultsPromises = <<>>
    /\ join = JoinPending
    /\ response = NoResponse

\* lines 68-94: the request arrives; a bad q is answered 400, otherwise the
\* limit is normalised and client.search is called
Receive(q, raw) ==
    /\ pc = "idle"
    /\ query' = q
    /\ rawLimit' = raw
    /\ IF InvalidQuery(q)
       THEN /\ response' = BadRequest
            /\ pc' = "done"
            /\ UNCHANGED <<limit, searchCalls>>
       ELSE /\ limit' = NormalizeLimit(raw)
            /\ searchCalls' = Append(searchCalls,
                                     [query |-> q, type |-> "track", limit |-> limit'])
            /\ pc' = "searching"
            /\ UNCHANGED response
    /\ UNCHANGED <<searchResults, lookupCalls, lookups, detailedResultsPromises, join>>

\* client.search throws or rejects: the outer catch answers 500
SearchThrows(e) ==
    /\ pc = "searching"
    /\ searchResults' = [kind |-> "threw", items |-> <<>>, err |-> <<e>>]
    /\ response' = InternalError(e)
    /\ pc' = "done"
    /\ UNCHANGED <<query, rawLimit, limit, searchCalls, lookupCalls, lookups,
                   detailedResultsPromises, join>>

\* client.search resolves with null or undefined: line 95 reads .length of it
\* before line 97 tests it, and the TypeError reaches the outer catch
SearchReturnsNull ==
    /\ pc = "searching"
    /\ searchResults' = [kind |-> "null", items |-> <<>>, err |-> <<>>]
    /\ response' = InternalError(TypeErrorReading("Cannot read properties of null (reading 'length')"))
    /\ pc' = "done"
    /\ UNCHANGED <<query, rawLimit, limit, searchCalls, lookupCalls, lookups,
                   detailedResultsPromises, join>>

LookupPending == [state |-> "pending", info |-> <<>>, err |-> <<>>]

LookupSkipped == [state |-> "skipped", info |-> <<>>, err |-> <<>>]

\* one more call for the first candidate that has a url
RECURSIVE UrlsOfWithRepeat(_)
UrlsOfWithRepeat(items) ==
    IF items = <<>> THEN <<>>
    ELSE IF MissingUrl(Head(items)) THEN UrlsOfWithRepeat(Tail(items))
    ELSE <<Head(items).url, Head(items).url>> \o UrlsOfWithRepeat(Tail(items))

\* the urls of the candidates that have one, in candidate order
RECURSIVE UrlsOf(_)
UrlsOf(items) ==
    IF items = <<>> THEN <<>>
    ELSE IF MissingUrl(Head(items)) THEN UrlsOf(Tail(items))
    ELSE <<Head(items).url>> \o UrlsOf(Tail(items))

\* lines 95-163: client.search resolves with an array; an empty one is answered
\* at once, otherwise map() runs every callback up to its await (issuing every
\* lookup) and the handler awaits Promise.all
SearchReturns(items) ==
    /\ pc = "searching"
    /\ searchResults' = [kind |-> "array", items |-> items, err |-> <<>>]
    /\ IF items = <<>>
       THEN /\ response' = NoTracksFound(query, rawLimit, limit)
            /\ pc' = "done"
            /\ UNCHANGED <<lookupCalls, lookups, detailedResultsPromises, join>>
       ELSE /\ lookupCalls' = lookupCalls \o UrlsOf(items)
            /\ lookups' = [i \in 1..Len(items) |->
                              IF MissingUrl(items[i]) THEN LookupSkipped ELSE LookupPending]
            /\ detailedResultsPromises' = [i \in 1..Len(items) |-> TrackStarted(items[i])]
            /\ join' = JoinStarted(detailedResultsPromises')
            /\ pc' = "joining"
            /\ UNCHANGED response
    /\ UNCHANGED <<query, rawLimit, limit, searchCalls>>

\* the promise of client.getSongInfo for candidate i settles and the callback
\* for that candidate runs to its end; Promise.all sees the callback's promise
LookupSettles(i, outcome) ==
    /\ pc \in {"joining", "done"}
    /\ i \in 1..Len(lookups)
    /\ lookups[i].state = "pending"
    /\ lookups' = [lookups EXCEPT ![i] = outcome]
    /\ detailedResultsPromises' =
           [detailedResultsPromises EXCEPT
               ![i] = TrackSettled(searchResults.items[i], outcome)]
    /\ join' = JoinAfter(join, detailedResultsPromises', i)
    /\ UNCHANGED <<pc, query, rawLimit, limit, searchCalls, searchResults,
                   lookupCalls, response>>

Resolved(info) == [state |-> "resolved", info |-> <<info>>, err |-> <<>>]

Failed(e) == [state |-> "rejected", info |-> <<>>, err |-> <<e>>]

LookupOutcomes == {Resolved(info) : info \in Infos} \cup {Failed(e) : e \in LookupErrors}

\* lines 163-185: the await of Promise.all returns or throws
Respond ==
    /\ pc = "joining"
    /\ join.state # "pending"
    /\ response' = IF join.state = "fulfilled"
                   THEN FinalResponse(query, rawLimit, limit, join.values)
                   ELSE InternalError(join.reason[1])
    /\ pc' = "done"
    /\ UNCHANGED <<query, rawLimit, limit, searchCalls, searchResults, lookupCalls,
                   lookups, detailedResultsPromises, join>>

Next ==
    \/ \E q \in Queries, raw \in RawLimits : Receive(q, raw)
    \/ \E e \in SearchErrors : SearchThrows(e)
    \/ SearchReturnsNull
    \/ \E items \in SearchArrays : SearchReturns(items)
    \/ \E i \in 1..MaxCandidates, outcome \in LookupOutcomes : LookupSettles(i, outcome)
    \/ Respond

Spec == Init /\ [][Next]_vars

(***************************************************************************)
(* Properties                                                              *)
(***************************************************************************)
Answered == response.status # 0

Body == response.body[1]

\* q is a string with a character other than white space
NonBlankString(q) ==
    /\ q.kind = "string"
    /\ \E k \in 1..Len(q.chars) : q.chars[k] \notin {" ", "\t"}

\* the text is an integer literal: an optional sign and then digits only
IsIntegerText(p) ==
    /\ p.kind = "string"
    /\ LET t    == Trim(p.chars)
           body == IF t # <<>> /\ Head(t) \in {"+", "-"} THEN Tail(t) ELSE t
       IN  /\ body # <<>>
           /\ \A k \in 1..Len(body) : body[k] \in Digits

IntegerOf(p) == ParseInt(p).val

\* C1: a request whose q is absent, not a string, empty or only white space is
\* answered 400 with an `error` field, and neither client.search nor
\* client.getSongInfo is called for it.
C1_BlankQueryIs400 ==
    (pc # "idle" /\ ~NonBlankString(query)) =>
        /\ pc = "done"
        /\ response.status = 400
        /\ "error" \in DOMAIN Body
        /\ searchCalls = <<>>
        /\ lookupCalls = <<>>

C1_Witness ==
    /\ pc = "done"
    /\ query = Str(<<" ", " ">>)
    /\ response.status = 400

\* C2 (as claimed): with a valid q, a limit that is absent, a string that is
\* not an integer literal, or an integer <= 0 makes the limit passed to
\* client.search and reported as processed_limit the default 10.
C2_NonIntegerLimitIsDefault ==
    (/\ pc # "idle"
     /\ NonBlankString(query)
     /\ \/ rawLimit.kind = "absent"
        \/ rawLimit.kind = "string" /\ ~IsIntegerText(rawLimit)
        \/ IsIntegerText(rawLimit) /\ IntegerOf(rawLimit) <= 0) =>
        /\ searchCalls[1].limit = 10
        /\ response.status = 200 => Body.processed_limit = 10

\* C3: with a valid q and a limit that is an integer above 50, client.search
\* is called with 50, the 200 body reports processed_limit 50 and the limit as
\* sent in requested_limit, the request is answered 200 whenever the search
\* returned and no error escaped a callback, and in every case the limit
\* passed to client.search is within 1..50.
C3_LimitClampedTo50 ==
    /\ \A k \in 1..Len(searchCalls) : searchCalls[k].limit \in 1..50
    /\ (/\ pc # "idle"
        /\ NonBlankString(query)
        /\ IsIntegerText(rawLimit)
        /\ IntegerOf(rawLimit) > 50) =>
           /\ searchCalls = <<[query |-> query, type |-> "track", limit |-> 50]>>
           /\ response.status # 400
           /\ response.status = 200 =>
                 /\ Body.processed_limit = 50
                 /\ Body.requested_limit = rawLimit
           /\ (/\ pc = "done"
               /\ searchResults.kind = "array"
               /\ \A i \in 1..Len(detailedResultsPromises) :
                      detailedResultsPromises[i].state # "rejected") =>
                  response.status = 200

C3_Witness ==
    /\ response.status = 200
    /\ rawLimit = Str(<<"9", "9", "9">>)
    /\ Body.processed_limit = 50
    /\ Body.requested_limit = Str(<<"9", "9", "9">>)
    /\ Len(Body.results) = 2

\* C4 (as claimed): a request with a valid q and a limit in 1..50 is answered
\* 200 with actual_result_count = length of results, whatever the upstream does.
C4_AlwaysOk ==
    (/\ pc = "done"
     /\ NonBlankString(query)
     /\ IsIntegerText(rawLimit)
     /\ IntegerOf(rawLimit) \in 1..50) =>
        /\ response.status = 200
        /\ Body.actual_result_count = Len(Body.results)

\* C4 (amended): such a request is answered 200 with actual_result_count =
\* length of results, or it is answered 500, and then client.search failed
\* (threw, or produced no array) or an error escaped a callback; never 400.
C4_OkOrInternalError ==
    (/\ pc = "done"
     /\ NonBlankString(query)
     /\ IsIntegerText(rawLimit)
     /\ IntegerOf(rawLimit) \in 1..50) =>
        \/ /\ response.status = 200
           /\ Body.actual_result_count = Len(Body.results)
        \/ /\ response.status = 500
           /\ \/ searchResults.kind \in {"threw", "null"}
              \/ \E i \in 1..Len(detailedResultsPromises) :
                     detailedResultsPromises[i].state = "rejected"

C4_Witness ==
    /\ response.status = 200
    /\ rawLimit = Str(<<"3">>)
    /\ Body.actual_result_count = 3
    /\ Len(Body.results) = 3

\* the record the callback builds for a candidate and its lookup's outcome
RecordFor(track, lookup) ==
    IF lookup.state = "skipped" THEN MissingUrlRecord(track)
    ELSE TrackSettled(track, lookup).value[1]

\* C5: in every 200 response actual_result_count = length of results = number
\* of candidates, and the i-th record is the one built from the i-th candidate
\* and its own lookup outcome, whatever the completion order and whichever
\* lookups failed.
C5_OneRecordPerCandidateInOrder ==
    response.status = 200 =>
        /\ searchResults.kind = "array"
        /\ Body.actual_result_count = Len(Body.results)
        /\ Len(Body.results) = Len(searchResults.items)
        /\ \A i \in 1..Len(searchResults.items) :
              /\ lookups[i].state # "pending"
              /\ Body.results[i] = RecordFor(searchResults.items[i], lookups[i])

C5_Witness ==
    /\ response.status = 200
    /\ searchResults.items = <<TrackA, TrackB, TrackNoUrl>>
    /\ lookups[1].state = "rejected"
    /\ lookups[2].state = "resolved"
    /\ Body.results[1].url = "https://sc/a"
    /\ Body.results[3].url = Null

\* every lookup of the request has settled, exactly one of them by failing and
\* the others by resolving with a payload
ExactlyOneLookupFailed ==
    /\ searchResults.kind = "array"
    /\ searchResults.items # <<>>
    /\ \A i \in 1..Len(lookups) : lookups[i].state \in {"resolved", "rejected"}
    /\ \A i \in 1..Len(lookups) : lookups[i].state = "resolved" => ~lookups[i].info[1].nil
    /\ Cardinality({i \in 1..Len(lookups) : lookups[i].state = "rejected"}) = 1

\* C6 (as claimed): when the lookup fails for exactly one of the N candidates,
\* the response is 200 with N records, fetchError true on the failing
\* candidate's record and false on every other.
C6_OneFailureIsOneFlag ==
    (pc = "done" /\ ExactlyOneLookupFailed) =>
        /\ response.status = 200
        /\ Body.actual_result_count = Len(searchResults.items)
        /\ Len(Body.results) = Len(searchResults.items)
        /\ \A i \in 1..Len(searchResults.items) :
              Body.results[i].fetchError = (lookups[i].state = "rejected")

\* C7 (as claimed): whatever the lookups throw, a request whose search
\* returned its candidates is not answered 500.
C7_LookupFailureNever500 ==
    searchResults.kind = "array" => response.status # 500

\* C8: an empty array from client.search is answered 200 with results empty,
\* actual_result_count 0 and a message, and no lookup is issued.
C8_EmptySearchIs200 ==
    (searchResults.kind = "array" /\ searchResults.items = <<>>) =>
        /\ pc = "done"
        /\ response.status = 200
        /\ Body.results = <<>>
        /\ Body.actual_result_count = 0
        /\ "message" \in DOMAIN Body
        /\ lookupCalls = <<>>
        /\ lookups = <<>>

C8_Witness ==
    /\ searchResults.kind = "array"
    /\ searchResults.items = <<>>
    /\ searchCalls # <<>>
    /\ response.status = 200

\* C9: when client.search throws the answer is 500 and its body is the same
\* whatever was thrown: it is the fixed generic body, which carries nothing of
\* the error.
C9_GenericInternalError ==
    searchResults.kind = "threw" =>
        /\ response.status = 500
        /\ Body = [error |-> "Internal Server Error",
                   message |-> "An unexpected error occurred while processing the SoundCloud search.",
                   developer |-> "Ehsan Fazeli"]
        /\ \A e \in SearchErrors : ~e.nullish => Body.message # e.message

C9_Witness ==
    /\ searchResults.kind = "threw"
    /\ searchResults.err = <<Thrown("429 rate limited")>>
    /\ response.status = 500

\* C10 (as claimed): for a non-empty candidate list no response is sent while
\* a lookup of the request is still pending.
C10_NoResponseWhilePending ==
    (Answered /\ searchResults.kind = "array") =>
        \A i \in 1..Len(lookups) : lookups[i].state # "pending"

\* the candidate is null or carries no url (none, null or the empty string)
HasNoUrl(track) == track.nil \/ track.url \in {Undefined, Null, ""}

\* a candidate's own field, or the default when it is absent
OwnOr(x, default) == IF x \in {Undefined, Null, ""} THEN default ELSE x

\* C11: for a candidate that is null or has no (or an empty) url no lookup is
\* issued, and its record has fetchError true, url null, the missing-URL
\* message and title, author, thumbnail and duration from the candidate's own
\* fields (defaults when absent); the other candidates are looked up.
C11_MissingUrlIsSkipped ==
    (searchResults.kind = "array" /\ searchResults.items # <<>>) =>
        /\ \A k \in 1..Len(lookupCalls) : lookupCalls[k] \notin {Undefined, Null, ""}
        /\ \A i \in 1..Len(searchResults.items) :
              LET track == searchResults.items[i]
                  rec   == detailedResultsPromises[i].value[1]
              IN  IF HasNoUrl(track)
                  THEN /\ lookups[i].state = "skipped"
                       /\ detailedResultsPromises[i].state = "fulfilled"
                       /\ rec.fetchError = TRUE
                       /\ rec.url = Null
                       /\ rec.errorMessage = "Missing track URL in search result"
                       /\ rec.title = OwnOr(track.title, "Unknown Title (URL missing)")
                       /\ rec.author = OwnOr(track.authorName, "Unknown Artist")
                       /\ rec.thumbnail = OwnOr(track.thumbnail, Null)
                       /\ rec.duration_seconds =
                              (IF track.duration = <<>> THEN 0
                               ELSE track.duration[1] \div 1000)
                       /\ response.status = 200 => Body.results[i] = rec
                  ELSE /\ lookups[i].state # "skipped"
                       /\ \E k \in 1..Len(lookupCalls) : lookupCalls[k] = track.url

C11_Witness ==
    /\ response.status = 200
    /\ searchResults.items = <<TrackNoUrl, TrackA, NullTrack>>
    /\ lookupCalls = <<"https://sc/a">>
    /\ lookups[2].state = "resolved"
    /\ Body.results[1].title = "Gamma"
    /\ Body.results[3].title = "Unknown Title (URL missing)"

\* the number of positions of a sequence that hold x
Occurrences(seq, x) == Cardinality({k \in 1..Len(seq) : seq[k] = x})

\* C12: per request client.search is called at most once, exactly once when q
\* is valid; client.getSongInfo is called exactly once for each candidate that
\* has a url and never for the others, whether lookups succeed or fail (no
\* retry); every call is made before any lookup is waited for.
C12_OneCallEach ==
    /\ Len(searchCalls) <= 1
    /\ (pc # "idle" /\ NonBlankString(query)) => Len(searchCalls) = 1
    /\ searchResults.kind # "array" => lookupCalls = <<>>
    /\ searchResults.kind = "array" =>
          /\ Len(lookupCalls) =
                 Cardinality({i \in 1..Len(searchResults.items) :
                                  ~HasNoUrl(searchResults.items[i])})
          /\ \A i \in 1..Len(searchResults.items) :
                 ~HasNoUrl(searchResults.items[i]) =>
                     Occurrences(lookupCalls, searchResults.items[i].url) =
                         Occurrences([k \in 1..Len(searchResults.items) |->
                                          searchResults.items[k].url],
                                     searchResults.items[i].url)

C12_Witness ==
    /\ pc = "done"
    /\ searchResults.items = <<TrackA, TrackB, TrackA>>
    /\ lookupCalls = <<"https://sc/a", "https://sc/b", "https://sc/a">>
    /\ lookups[1].state = "rejected"
    /\ lookups[2].state = "rejected"
    /\ lookups[3].state = "resolved"

\* C13 (as claimed): every record of a 200 response has duration_seconds >= 0
\* and equal to floor(duration / 1000) of the payload (lookup success) or of
\* the candidate (otherwise), 0 when that duration is absent.
C13_DurationIsFloorAndNonNegative ==
    response.status = 200 =>
        \A i \in 1..Len(Body.results) :
            LET d == IF lookups[i].state = "resolved"
                     THEN lookups[i].info[1].duration
                     ELSE searchResults.items[i].duration
            IN  /\ Body.results[i].duration_seconds >= 0
                /\ Body.results[i].duration_seconds =
                       (IF d = <<>> THEN 0 ELSE d[1] \div 1000)

\* C13 (amended): every record of a 200 response has duration_seconds equal to
\* floor(duration / 1000), of the payload when the record was built from it
\* (fetchError false) and of the candidate otherwise, 0 when that duration is
\* absent; it is >= 0 whenever that duration is not negative.
C13_DurationIsFloor ==
    response.status = 200 =>
        \A i \in 1..Len(Body.results) :
            LET d == IF ~Body.results[i].fetchError
                     THEN lookups[i].info[1].duration
                     ELSE searchResults.items[i].duration
            IN  /\ Body.results[i].duration_seconds =
                       (IF d = <<>> THEN 0 ELSE d[1] \div 1000)
                /\ (d = <<>> \/ d[1] >= 0) => Body.results[i].duration_seconds >= 0

C13_Witness ==
    /\ response.status = 200
    /\ searchResults.items = <<TrackA, TrackNoUrl, TrackA>>
    /\ lookups[1] = Resolved(InfoFull)
    /\ lookups[3] = Failed(Thrown("boom"))
    /\ Body.results[1].duration_seconds = 125
    /\ Body.results[2].duration_seconds = -2
    /\ Body.results[3].duration_seconds = 3

\* C16 (as claimed): in a 200 response a record has fetchError false exactly
\* when a lookup was issued for its candidate and resolved, whatever the
\* payload, and it carries errorMessage exactly when fetchError is true.
C16_FetchErrorIffLookupFailed ==
    response.status = 200 =>
        \A i \in 1..Len(Body.results) :
            /\ Body.results[i].fetchError = FALSE <=> lookups[i].state = "resolved"
            /\ Body.results[i].errorMessage # Undefined <=> Body.results[i].fetchError

\* C17 (as claimed): once sent the response never changes, and no response is
\* sent in a step that leaves an issued lookup pending.
C17_AnsweredOnceAfterAllLookups ==
    [][/\ response.status # 0 => response' = response
       /\ (response.status = 0 /\ response'.status # 0) =>
              \A i \in 1..Len(lookups') : lookups'[i].state # "pending"]_vars

(***************************************************************************)
(* The earlier handler (src/unnamed/part_000)                              *)
(***************************************************************************)
\* !query: only undefined and the empty string are falsy; an array is truthy
LegacyInvalidQuery(q) ==
    \/ q.kind = "absent"
    \/ q.kind = "string" /\ q.chars = <<>>

\* parseInt(req.query.limit) || 10; without a radix parseInt reads a "0x"
\* prefix as hexadecimal, which none of LegacyLimits has
LegacyLimit(raw) ==
    LET n == ParseInt(raw)
    IN  IF n.nan \/ n.val = 0 THEN 10 ELSE n.val

LegacySuccessRecord(songInfo) ==
    [title |-> OrElse(songInfo.title, "Unknown Title"),
     url |-> OrElse(songInfo.url, Null),
     author |-> OrElse(songInfo.authorName, "Unknown Artist"),
     thumbnail |-> OrElse(songInfo.thumbnail, Null),
     duration_seconds |-> DurationSeconds(songInfo.duration),
     genre |-> OrElse(songInfo.genre, "Unknown"),
     publishedAt |-> OrElse(songInfo.publishedAt, "Unknown")]

LegacyFailureRecord(track) ==
    [title |-> "Unknown Title",
     url |-> OrElse(track.url, Null),
     author |-> "Unknown Artist",
     thumbnail |-> Null,
     duration_seconds |-> 0,
     genre |-> "Unknown",
     publishedAt |-> "Unknown"]

\* the callback up to its await: track.url of a null track throws in the try
\* block and again in the catch block
LegacyTrackStarted(track) ==
    IF track.nil
    THEN Rejected(TypeErrorReading("Cannot read properties of null (reading 'url')"))
    ELSE Pending

\* the callback resumed: the catch block does not read the error
LegacyTrackSettled(track, lookup) ==
    IF lookup.state = "resolved" /\ ~lookup.info[1].nil
    THEN Fulfilled(LegacySuccessRecord(lookup.info[1]))
    ELSE Fulfilled(LegacyFailureRecord(track))

\* Promise.all over promises some of which may be rejected already
LegacyJoinStarted(ps) ==
    IF \E i \in 1..Len(ps) : ps[i].state = "rejected"
    THEN LET first == CHOOSE i \in 1..Len(ps) :
                         /\ ps[i].state = "rejected"
                         /\ \A k \in 1..(i - 1) : ps[k].state # "rejected"
         IN  [state |-> "rejected", values |-> <<>>, reason |-> ps[first].reason]
    ELSE JoinStarted(ps)

LegacyBadRequest ==
    [status |-> 400,
     body |-> <<[error |-> "Missing search query. Please provide a \"q\" parameter."]>>]

LegacyInternalError ==
    [status |-> 500,
     body |-> <<[error |-> "Internal server error while searching SoundCloud.",
                 developer |-> "Ehsan Fazeli"]>>]

LegacyFinalResponse(q, detailedResults) ==
    [status |-> 200,
     body |-> <<[query |-> q, total_results |-> Len(detailedResults),
                 developer |-> "Ehsan Fazeli", results |-> detailedResults]>>]

LegacyLimits == {Absent, Str(<<"3">>), Str(<<"0">>), Str(<<"-", "3">>)}

SmallSearchArrays ==
    {<<>>, <<TrackA>>, <<TrackA, TrackB>>, <<TrackNoUrl, TrackA>>, <<NullTrack, TrackA>>}

\* lines 21-32
LegacyReceive(q, raw) ==
    /\ pc = "idle"
    /\ query' = q
    /\ rawLimit' = raw
    /\ limit' = LegacyLimit(raw)
    /\ IF LegacyInvalidQuery(q)
       THEN /\ response' = LegacyBadRequest
            /\ pc' = "done"
            /\ UNCHANGED searchCalls
       ELSE /\ searchCalls' = Append(searchCalls,
                                     [query |-> q, type |-> "track", limit |-> limit'])
            /\ pc' = "searching"
            /\ UNCHANGED response
    /\ UNCHANGED <<searchResults, lookupCalls, lookups, detailedResultsPromises, join>>

\* lines 32, 70-76
LegacySearchThrows(e) ==
    /\ pc = "searching"
    /\ searchResults' = [kind |-> "threw", items |-> <<>>, err |-> <<e>>]
    /\ response' = LegacyInternalError
    /\ pc' = "done"
    /\ UNCHANGED <<query, rawLimit, limit, searchCalls, lookupCalls, lookups,
                   detailedResultsPromises, join>>

\* lines 32-36, 70-76: searchResults.map of null throws
LegacySearchReturnsNull ==
    /\ pc = "searching"
    /\ searchResults' = [kind |-> "null", items |-> <<>>, err |-> <<>>]
    /\ response' = LegacyInternalError
    /\ pc' = "done"
    /\ UNCHANGED <<query, rawLimit, limit, searchCalls, lookupCalls, lookups,
                   detailedResultsPromises, join>>

\* the urls client.getSongInfo is called with: every track that is not null
RECURSIVE LegacyUrlsOf(_)
LegacyUrlsOf(items) ==
    IF items = <<>> THEN <<>>
    ELSE IF Head(items).nil THEN LegacyUrlsOf(Tail(items))
    ELSE <<Head(items).url>> \o LegacyUrlsOf(Tail(items))

\* lines 32-61: map() issues the lookups and the handler awaits Promise.all
LegacySearchReturns(items) ==
    /\ pc = "searching"
    /\ searchResults' = [kind |-> "array", items |-> items, err |-> <<>>]
    /\ lookupCalls' = lookupCalls \o LegacyUrlsOf(items)
    /\ lookups' = [i \in 1..Len(items) |->
                      IF items[i].nil THEN LookupSkipped ELSE LookupPending]
    /\ detailedResultsPromises' = [i \in 1..Len(items) |-> LegacyTrackStarted(items[i])]
    /\ join' = LegacyJoinStarted(detailedResultsPromises')
    /\ pc' = "joining"
    /\ UNCHANGED <<query, rawLimit, limit, searchCalls, response>>

\* lines 38-59
LegacyLookupSettles(i, outcome) ==
    /\ pc \in {"joining", "done"}
    /\ i \in 1..Len(lookups)
    /\ lookups[i].state = "pending"
    /\ lookups' = [lookups EXCEPT ![i] = outcome]
    /\ detailedResultsPromises' =
           [detailedResultsPromises EXCEPT
               ![i] = LegacyTrackSettled(searchResults.items[i], outcome)]
    /\ join' = JoinAfter(join, detailedResultsPromises', i)
    /\ UNCHANGED <<pc, query, rawLimit, limit, searchCalls, searchResults,
                   lookupCalls, response>>

\* lines 35, 63-76
LegacyRespond ==
    /\ pc = "joining"
    /\ join.state # "pending"
    /\ response' = IF join.state = "fulfilled"
                   THEN LegacyFinalResponse(query, join.values)
                   ELSE LegacyInternalError
    /\ pc' = "done"
    /\ UNCHANGED <<query, rawLimit, limit, searchCalls, searchResults, lookupCalls,
                   lookups, detailedResultsPromises, join>>

LegacyNext ==
    \/ \E q \in Queries, raw \in LegacyLimits : LegacyReceive(q, raw)
    \/ \E e \in SearchErrors : LegacySearchThrows(e)
    \/ LegacySearchReturnsNull
    \/ \E items \in SmallSearchArrays : LegacySearchReturns(items)
    \/ \E i \in 1..MaxCandidates, outcome \in LookupOutcomes : LegacyLookupSettles(i, outcome)
    \/ LegacyRespond

SpecLegacy == Init /\ [][LegacyNext]_vars

\* C15 (as claimed): the earlier handler answers 400 with an `error` field and
\* never calls client.search whenever q is absent, empty or only white space.
C15_LegacyBlankQueryIs400 ==
    (/\ pc # "idle"
     /\ \/ query.kind = "absent"
        \/ /\ query.kind = "string"
           /\ \A k \in 1..Len(query.chars) : query.chars[k] \in {" ", "\t"}) =>
        /\ response.status = 400
        /\ "error" \in DOMAIN Body
        /\ searchCalls = <<>>

(***************************************************************************)
(* Several requests in flight: every variable of the handler is local to   *)
(* one invocation, so here it holds one value per request; the module-level *)
(* client is shared, so searchCalls and lookupCalls are its single call    *)
(* logs, each entry tagged with the request that made the call.            *)
(***************************************************************************)
Requests == {1, 2}

ConcurrentQueries ==
    {Str(<<" ", " ">>), Str(<<" ", "l", "o", "f", "i">>), Str(<<"a">>)}

ConcurrentLimits == {Str(<<"3">>), Str(<<"5", "1">>)}

ConcurrentArrays == {<<>>, <<TrackA>>, <<TrackNoUrl, TrackB>>}

ConcurrentOutcomes ==
    {Resolved(InfoFull), Failed(Thrown("boom")), Failed(ThrownNullish)}

\* `limit` read where it was declared, in the invocation's own scope, had it
\* been declared at module level: the value the latest request wrote
LimitOfLatestRequest(r) == searchCalls[Len(searchCalls)].limit

\* `let limit` of invocation r (line 78)
LimitOf(r) == limit[r]

ConcurrentInit ==
    /\ pc = [r \in Requests |-> "idle"]
    /\ query = [r \in Requests |-> Absent]
    /\ rawLimit = [r \in Requests |-> Absent]
    /\ limit = [r \in Requests |-> 0]
    /\ searchCalls = <<>>
    /\ searchResults = [r \in Requests |-> NoSearchResults]
    /\ lookupCalls = <<>>
    /\ lookups = [r \in Requests |-> <<>>]
    /\ detailedResultsPromises = [r \in Requests |-> <<>>]
    /\ join = [r \in Requests |-> JoinPending]
    /\ response = [r \in Requests |-> NoResponse]

ConcurrentReceive(r, q, raw) ==
    /\ pc[r] = "idle"
    /\ query' = [query EXCEPT ![r] = q]
    /\ rawLimit' = [rawLimit EXCEPT ![r] = raw]
    /\ IF InvalidQuery(q)
       THEN /\ response' = [response EXCEPT ![r] = BadRequest]
            /\ pc' = [pc EXCEPT ![r] = "done"]
            /\ UNCHANGED <<limit, searchCalls>>
       ELSE /\ limit' = [limit EXCEPT ![r] = NormalizeLimit(raw)]
            /\ searchCalls' = Append(searchCalls,
                                     [req |-> r, query |-> q, type |-> "track",
                                      limit |-> limit'[r]])
            /\ pc' = [pc EXCEPT ![r] = "searching"]
            /\ UNCHANGED response
    /\ UNCHANGED <<searchResults, lookupCalls, lookups, detailedResultsPromises, join>>

ConcurrentSearchThrows(r, e) ==
    /\ pc[r] = "searching"
    /\ searchResults' = [searchResults EXCEPT
                            ![r] = [kind |-> "threw", items |-> <<>>, err |-> <<e>>]]
    /\ response' = [response EXCEPT ![r] = InternalError(e)]
    /\ pc' = [pc EXCEPT ![r] = "done"]
    /\ UNCHANGED <<query, rawLimit, limit, searchCalls, lookupCalls, lookups,
                   detailedResultsPromises, join>>

ConcurrentSearchReturnsNull(r) ==
    /\ pc[r] = "searching"
    /\ searchResults' = [searchResults EXCEPT
                            ![r] = [kind |-> "null", items |-> <<>>, err |-> <<>>]]
    /\ response' = [response EXCEPT ![r] =
           InternalError(TypeErrorReading("Cannot read properties of null (reading 'length')"))]
    /\ pc' = [pc EXCEPT ![r] = "done"]
    /\ UNCHANGED <<query, rawLimit, limit, searchCalls, lookupCalls, lookups,
                   detailedResultsPromises, join>>

ConcurrentSearchReturns(r, items) ==
    /\ pc[r] = "searching"
    /\ searchResults' = [searchResults EXCEPT
                            ![r] = [kind |-> "array", items |-> items, err |-> <<>>]]
    /\ IF items = <<>>
       THEN /\ response' = [response EXCEPT
                               ![r] = NoTracksFound(query[r], rawLimit[r], LimitOf(r))]
            /\ pc' = [pc EXCEPT ![r] = "done"]
            /\ UNCHANGED <<lookupCalls, lookups, detailedResultsPromises, join>>
       ELSE /\ lookupCalls' =
                   lookupCalls \o [k \in 1..Len(UrlsOf(items)) |->
                                      [req |-> r, url |-> UrlsOf(items)[k]]]
            /\ lookups' = [lookups EXCEPT ![r] =
                   [i \in 1..Len(items) |->
                       IF MissingUrl(items[i]) THEN LookupSkipped ELSE LookupPending]]
            /\ detailedResultsPromises' = [detailedResultsPromises EXCEPT ![r] =
                   [i \in 1..Len(items) |-> TrackStarted(items[i])]]
            /\ join' = [join EXCEPT ![r] = JoinStarted(detailedResultsPromises'[r])]
            /\ pc' = [pc EXCEPT ![r] = "joining"]
            /\ UNCHANGED response
    /\ UNCHANGED <<query, rawLimit, limit, searchCalls>>

ConcurrentLookupSettles(r, i, outcome) ==
    /\ pc[r] \in {"joining", "done"}
    /\ i \in 1..Len(lookups[r])
    /\ lookups[r][i].state = "pending"
    /\ lookups' = [lookups EXCEPT ![r][i] = outcome]
    /\ detailedResultsPromises' =
           [detailedResultsPromises EXCEPT
               ![r][i] = TrackSettled(searchResults[r].items[i], outcome)]
    /\ join' = [join EXCEPT ![r] = JoinAfter(join[r], detailedResultsPromises'[r], i)]
    /\ UNCHANGED <<pc, query, rawLimit, limit, searchCalls, searchResults,
                   lookupCalls, response>>

ConcurrentRespond(r) ==
    /\ pc[r] = "joining"
    /\ join[r].state # "pending"
    /\ response' = [response EXCEPT ![r] =
           IF join[r].state = "fulfilled"
           THEN FinalResponse(query[r], rawLimit[r], LimitOf(r), join[r].values)
           ELSE InternalError(join[r].reason[1])]
    /\ pc' = [pc EXCEPT ![r] = "done"]
    /\ UNCHANGED <<query, rawLimit, limit, searchCalls, searchResults, lookupCalls,
                   lookups, detailedResultsPromises, join>>

ConcurrentNext ==
    \/ \E r \in Requests, q \in ConcurrentQueries, raw \in ConcurrentLimits :
           ConcurrentReceive(r, q, raw)
    \/ \E r \in Requests, e \in {Thrown("ECONNRESET")} : ConcurrentSearchThrows(r, e)
    \/ \E r \in Requests : ConcurrentSearchReturnsNull(r)
    \/ \E r \in Requests, items \in ConcurrentArrays : ConcurrentSearchReturns(r, items)
    \/ \E r \in Requests, i \in 1..MaxCandidates, outcome \in ConcurrentOutcomes :
           ConcurrentLookupSettles(r, i, outcome)
    \/ \E r \in Requests : ConcurrentRespond(r)

SpecConcurrent == ConcurrentInit /\ [][ConcurrentNext]_vars

\* the limit the claim expects for a raw limit: its integer, at most 50
ExpectedLimit(raw) == IF IntegerOf(raw) > 50 THEN 50 ELSE IntegerOf(raw)

\* the response of request r as a function of its own q, its own limit and
\* the outcomes of its own upstream calls
ResponseAlone(r) ==
    LET items == searchResults[r].items
        escaped == \E i \in 1..Len(items) :
                       /\ lookups[r][i].state = "rejected"
                       /\ lookups[r][i].err[1].nullish
    IN  IF ~NonBlankString(query[r]) THEN BadRequest
        ELSE IF searchResults[r].kind \in {"threw", "null"} \/ escaped
             THEN InternalError(ThrownNullish)
        ELSE IF items = <<>>
             THEN NoTracksFound(query[r], rawLimit[r], ExpectedLimit(rawLimit[r]))
        ELSE [status |-> 200,
              body |-> <<[query |-> query[r],
                          requested_limit |-> rawLimit[r],
                          processed_limit |-> ExpectedLimit(rawLimit[r]),
                          actual_result_count |-> Len(items),
                          developer |-> "Ehsan Fazeli",
                          results |-> [i \in 1..Len(items) |->
                                          RecordFor(items[i], lookups[r][i])]]>>]

\* C14: with several requests in flight and their upstream calls interleaved,
\* the response of each request is the one determined by its own q, its own
\* limit and its own upstream outcomes, and every call logged for a request
\* carries that request's own query, limit and candidate urls.
C14_RequestsAreIndependent ==
    /\ \A r \in Requests : response[r].status # 0 => response[r] = ResponseAlone(r)
    /\ \A k \in 1..Len(searchCalls) :
           /\ searchCalls[k].query = query[searchCalls[k].req]
           /\ searchCalls[k].limit = ExpectedLimit(rawLimit[searchCalls[k].req])
    /\ \A k \in 1..Len(lookupCalls) :
           \E i \in 1..Len(searchResults[lookupCalls[k].req].items) :
               searchResults[lookupCalls[k].req].items[i].url = lookupCalls[k].url

C14_Witness ==
    /\ Len(searchCalls) = 2
    /\ searchCalls[1].req = 1
    /\ searchCalls[2].req = 2
    /\ lookupCalls = <<[req |-> 2, url |-> "https://sc/b"], [req |-> 1, url |-> "https://sc/a"]>>
    /\ response[1].status = 200
    /\ response[2].status = 200
    /\ response[1].body[1].processed_limit = 3
    /\ response[2].body[1].processed_limit = 50
    /\ response[1].body[1].results[1].fetchError = TRUE
    /\ response[2].body[1].results[2].fetchError = FALSE

====
